---------------------------- MODULE Spec2Model ----------------------------
(***************************************************************************)
(* A model of src/main.py: the weather-station pipeline                    *)
(*   fetch_data -> process_data -> generate_heatmap -> save_json           *)
(* with its three library calls that decide the checked properties         *)
(* (np.mgrid, scipy griddata(method='linear'), geopandas union_all/within) *)
(* modelled by what they compute.                                          *)
(*                                                                         *)
(* Numbers.  A Python float is a record: Fin(n), NaN, PosInf or NegInf.    *)
(* Degrees, degrees Celsius, percent and m/s are kept in tenths (25.0 is   *)
(* Fin(250)); an apparent temperature is kept in hundredths.               *)
(***************************************************************************)
EXTENDS Integers, Sequences, FiniteSets, TLC

VARIABLES
    pc,             \* position of the program
    net_api,        \* what requests.get(...) will answer (the environment)
    net_map,        \* what gpd.read_file(MAP_URL) will answer (the environment)
    raw_data,       \* main: raw_data / process_data: its argument
    idx,            \* process_data: index of the next item of the for loop
    mainland_data,  \* process_data: list
    km_matsu_data,  \* process_data: list
    df_main, df_km, \* the two DataFrames (sequences of rows)
    taiwan_map,     \* generate_heatmap: the polygons read from MAP_URL
    taiwan_union,   \* generate_heatmap: taiwan_map.union_all()
    grid_x, grid_y, \* generate_heatmap: the lattice
    grid_z,         \* generate_heatmap: the field (masked in place at line 171)
    interp,         \* history: grid_z as griddata returned it
    mask_grid,      \* generate_heatmap: the mask, lattice shaped
    png_saved,      \* apparent_temp_map.png has been written
    json_saved,     \* data_detailed.json has been written
    exc             \* the exception in flight or caught ("none" when none)

vars == <<pc, net_api, net_map, raw_data, idx, mainland_data, km_matsu_data,
          df_main, df_km, taiwan_map, taiwan_union, grid_x, grid_y, grid_z,
          interp, mask_grid, png_saved, json_saved, exc>>

-----------------------------------------------------------------------------
(* Bounds of the model *)

\* longest Station list of a payload
MaxStations == 2
\* most rows of df_main handed to generate_heatmap on its own
MaxSamples == 4
\* most polygons of the boundary file
MaxPolys == 2
\* lattice resolution on the longitude axis (500j in the source)
GridRows == 3
\* lattice resolution on the latitude axis (500j in the source)
GridCols == 4

-----------------------------------------------------------------------------
(* Python floats *)

Fin(n) == [k |-> "fin", v |-> n]
NaN == [k |-> "nan", v |-> 0]
PosInf == [k |-> "inf", v |-> 1]
NegInf == [k |-> "inf", v |-> -1]
NoneVal == [k |-> "none", v |-> 0]

IsFinite(a) == a.k = "fin"

\* a < b on floats: every comparison with NaN is False
Lt(a, b) ==
    /\ a.k # "nan"
    /\ b.k # "nan"
    /\ CASE a.k = "inf" -> a.v = -1 /\ ~(b.k = "inf" /\ b.v = -1)
         [] b.k = "inf" -> b.v = 1
         [] OTHER -> a.v < b.v

\* a <= b on floats
Le(a, b) == Lt(a, b) \/ (a.k # "nan" /\ b.k # "nan" /\ a = b)

\* Python's min(a, b): b if b < a else a
PyMin(a, b) == IF Lt(b, a) THEN b ELSE a

\* Python's max(a, b): b if b > a else a
PyMax(a, b) == IF Lt(a, b) THEN b ELSE a

-----------------------------------------------------------------------------
(* JSON field values and float() *)

Absent == "<absent>"
Null == "<null>"

\* the numeric literals of the modelled payloads, in tenths
NumTokens ==
    {"25.0", "23.5", "24.4", "26.2", "22.0", "23.0", "121.5", "120.0",
     "121.0", "120.5", "118.3", "-15.0", "55.0", "55.1", "18.5", "32.0",
     "-99", "50", "0", "100", "101", "2.0"}

\* float(tok) of a token float() accepts
ParseFloat(tok) ==
    CASE tok = "25.0"  -> Fin(250)
      [] tok = "23.5"  -> Fin(235)
      [] tok = "24.4"  -> Fin(244)
      [] tok = "26.2"  -> Fin(262)
      [] tok = "22.0"  -> Fin(220)
      [] tok = "23.0"  -> Fin(230)
      [] tok = "18.5"  -> Fin(185)
      [] tok = "32.0"  -> Fin(320)
      [] tok = "121.5" -> Fin(1215)
      [] tok = "120.0" -> Fin(1200)
      [] tok = "121.0" -> Fin(1210)
      [] tok = "120.5" -> Fin(1205)
      [] tok = "118.3" -> Fin(1183)
      [] tok = "-15.0" -> Fin(-150)
      [] tok = "55.0"  -> Fin(550)
      [] tok = "55.1"  -> Fin(551)
      [] tok = "-99"   -> Fin(-990)
      [] tok = "50"    -> Fin(500)
      [] tok = "0"     -> Fin(0)
      [] tok = "100"   -> Fin(1000)
      [] tok = "101"   -> Fin(1010)
      [] tok = "2.0"   -> Fin(20)
      [] tok = "nan"   -> NaN
      [] tok = "inf"   -> PosInf
      [] tok = "-inf"  -> NegInf

\* the exception float(item[...][field]) raises, "none" when it returns
FloatExc(tok) ==
    CASE tok = Absent -> "KeyError"
      [] tok = Null -> "TypeError"
      [] tok \in NumTokens \cup {"nan", "inf", "-inf"} -> "none"
      [] OTHER -> "ValueError"

-----------------------------------------------------------------------------
(* calculate_apparent_temp *)

\* 6.105 * exp(17.27 T / (237.7 + T)) in hundredths of hPa, T in tenths
Es100(t) ==
    CASE t = -150 -> 191
      [] t = 185  -> 2125
      [] t = 250  -> 3158
      [] t = 320  -> 4738
      [] t = 550  -> 15669

\* math.exp raises: ZeroDivisionError at T = -237.7, OverflowError just below
ExpRaises(t) == t >= -2436 /\ t <= -2377

calculate_apparent_temp(temp, humid, wind_speed) ==
    LET h  == PyMax(Fin(0), PyMin(Fin(1000), humid))
        ws == PyMax(wind_speed, Fin(0))
    IN  IF IsFinite(temp) /\ ExpRaises(temp.v) THEN NoneVal
        ELSE IF ~IsFinite(temp) THEN NaN
        ELSE IF ws.k = "nan" THEN NaN
        ELSE IF ws.k = "inf" THEN NegInf
        ELSE Fin(10 * temp.v + ((33 * h.v * Es100(temp.v)) \div 100000)
                 - 7 * ws.v - 400)

-----------------------------------------------------------------------------
(* process_data *)

km_matsu_counties == {"Kinmen", "Lienchiang"}

NoRow == [name |-> "", lat |-> NaN, lon |-> NaN, temp |-> NaN, at |-> NaN,
          city |-> "", town |-> ""]

\* the first exception of a sequence of evaluations
RECURSIVE FirstExc(_)
FirstExc(es) ==
    IF es = <<>> THEN "none"
    ELSE IF Head(es) # "none" THEN Head(es)
    ELSE FirstExc(Tail(es))

KeyExc(v) == IF v = Absent THEN "KeyError" ELSE "none"

\* lines 94-99: the exception raised while the six fields are read
ReadExc(item) ==
    IF ~item.dict THEN "TypeError"
    ELSE IF item.coords = Absent THEN "KeyError"
    ELSE IF item.coords = "empty" THEN "IndexError"
    ELSE FirstExc(<<FloatExc(item.lat), FloatExc(item.lon),
                    FloatExc(item.temp), FloatExc(item.humid),
                    FloatExc(item.wind), KeyExc(item.city)>>)

\* line 102
OutOfRange(temp, humid) ==
    \/ Lt(temp, Fin(-150))
    \/ Lt(Fin(550), temp)
    \/ Lt(humid, Fin(0))
    \/ Lt(Fin(1000), humid)

InMainlandBoxLonOnly(lon, lat) == Le(Fin(1190), lon) /\ Le(lon, Fin(1225))

\* line 124
InMainlandBox(lon, lat) ==
    /\ Le(Fin(1190), lon) /\ Le(lon, Fin(1225))
    /\ Le(Fin(215), lat) /\ Le(lat, Fin(255))

\* The body of the try of one loop iteration (lines 94-125): what it does,
\* kind "exc" (raises), "skip" (continue, or the box test fails), "main" or "km".
TryBody(item) ==
    IF ReadExc(item) # "none"
    THEN [kind |-> "exc", exc |-> ReadExc(item), dp |-> NoRow]
    ELSE
    LET lat   == ParseFloat(item.lat)
        lon   == ParseFloat(item.lon)
        temp  == ParseFloat(item.temp)
        humid == ParseFloat(item.humid)
        wind  == ParseFloat(item.wind)
        at    == calculate_apparent_temp(temp, humid, wind)
        dp    == [name |-> item.name, lat |-> lat, lon |-> lon, temp |-> temp,
                  at |-> at, city |-> item.city, town |-> item.town]
    IN  IF OutOfRange(temp, humid)
        THEN [kind |-> "skip", exc |-> "none", dp |-> NoRow]
        ELSE IF at = NoneVal
        THEN [kind |-> "skip", exc |-> "none", dp |-> NoRow]
        ELSE IF FirstExc(<<KeyExc(item.name), KeyExc(item.town)>>) # "none"
        THEN [kind |-> "exc", exc |-> "KeyError", dp |-> NoRow]
        ELSE IF item.city \in km_matsu_counties
        THEN [kind |-> "km", exc |-> "none", dp |-> dp]
        ELSE IF InMainlandBox(lon, lat)
        THEN [kind |-> "main", exc |-> "none", dp |-> dp]
        ELSE [kind |-> "skip", exc |-> "none", dp |-> NoRow]

ExceptNarrow(e) == e \in {"ValueError"}

\* line 127: except (ValueError, KeyError, IndexError, TypeError)
ExceptClause(e) == e \in {"ValueError", "KeyError", "IndexError", "TypeError"}

\* line 89: the exception of the guard, "none" when it evaluates
GuardExc(raw) == IF raw.shape = "records_null" THEN "TypeError" ELSE "none"

\* line 89: the guard's value
GuardHolds(raw) == raw.shape \in {"none", "empty", "no_records", "no_station"}

\* process_data as a function of its argument: the lists after the items of
\* `stations` have been processed in order (exc: the exception that escaped)
RECURSIVE ProcessItems(_, _)
ProcessItems(stations, acc) ==
    IF stations = <<>> \/ acc.exc # "none" THEN acc
    ELSE LET r == TryBody(Head(stations))
         IN  ProcessItems(Tail(stations),
                CASE r.kind = "main" -> [acc EXCEPT !.main = Append(@, r.dp)]
                  [] r.kind = "km" -> [acc EXCEPT !.km = Append(@, r.dp)]
                  [] r.kind = "exc" /\ ~ExceptClause(r.exc) ->
                        [acc EXCEPT !.exc = r.exc]
                  [] OTHER -> acc)

\* lines 80-130
process_data(raw) ==
    LET none == [main |-> <<>>, km |-> <<>>, exc |-> "none"]
    IN  IF GuardExc(raw) # "none" THEN [none EXCEPT !.exc = GuardExc(raw)]
        ELSE IF GuardHolds(raw) THEN none
        ELSE IF raw.shape = "station_null" THEN [none EXCEPT !.exc = "TypeError"]
        ELSE ProcessItems(raw.stations, none)

-----------------------------------------------------------------------------
(* The payloads of the model *)

Item(name, lat, lon, temp, humid, wind, city) ==
    [dict |-> TRUE, name |-> name, coords |-> "list", lat |-> lat, lon |-> lon,
     temp |-> temp, humid |-> humid, wind |-> wind, city |-> city,
     town |-> "town"]

StA == Item("A", "22.0", "120.0", "25.0", "50", "2.0", "Pingtung")
StB == Item("B", "23.5", "121.5", "32.0", "100", "0", "Hualien")
StC == Item("C", "25.0", "120.5", "18.5", "50", "2.0", "Taipei")
StD == Item("D", "24.4", "121.0", "-15.0", "0", "2.0", "Nantou")
StE == Item("E", "23.0", "121.0", "55.0", "50", "-99", "Taitung")
StKinmen == Item("Kinmen", "24.4", "118.3", "25.0", "50", "2.0", "Kinmen")
StMatsu == Item("Matsu", "26.2", "120.0", "18.5", "100", "2.0", "Lienchiang")

\* accepted by every test, but outside the mainland box
StPenghu == Item("Penghu", "23.5", "118.3", "25.0", "50", "2.0", "Penghu")
StNorth == Item("North", "26.2", "121.5", "25.0", "50", "2.0", "Taipei")

\* instrument-fault values
StCold == [StA EXCEPT !.name = "Cold", !.temp = "-99"]
StHot == [StA EXCEPT !.name = "Hot", !.temp = "55.1"]
StWet == [StA EXCEPT !.name = "Wet", !.humid = "101"]
StDry == [StKinmen EXCEPT !.name = "Dry", !.humid = "-99"]

\* values float() parses to NaN or an infinity
StTempNaN == [StA EXCEPT !.name = "TempNaN", !.temp = "nan"]
StTempInf == [StA EXCEPT !.name = "TempInf", !.temp = "inf"]
StHumidNaN == [StA EXCEPT !.name = "HumidNaN", !.humid = "nan"]
StWindNaN == [StB EXCEPT !.name = "WindNaN", !.wind = "nan"]
StWindInf == [StKinmen EXCEPT !.name = "WindInf", !.wind = "inf"]
StLatNaN == [StKinmen EXCEPT !.name = "LatNaN", !.lat = "nan"]
StLonInf == [StA EXCEPT !.name = "LonInf", !.lon = "inf"]

\* records the try block gives up on
StNoTemp == [StA EXCEPT !.name = "NoTemp", !.temp = Absent]
StNoCoords == [StB EXCEPT !.name = "NoCoords", !.coords = "empty"]
StNoGeo == [StC EXCEPT !.name = "NoGeo", !.coords = Absent]
StText == [StA EXCEPT !.name = "Text", !.humid = "abc"]
StNull == [StKinmen EXCEPT !.name = "Null", !.wind = Null]
StNoTown == [StA EXCEPT !.name = "NoTown", !.town = Absent]
StNoName == [StKinmen EXCEPT !.name = Absent]
StNotDict == [StA EXCEPT !.name = "NotDict", !.dict = FALSE]

GoodStations == {StA, StB, StC, StD, StE}

Stations ==
    {StA, StB, StKinmen, StMatsu, StPenghu, StNorth, StCold, StHot, StWet,
     StDry, StTempNaN, StTempInf, StHumidNaN, StWindNaN, StWindInf, StLatNaN,
     StLonInf, StNoTemp, StNoCoords, StNoGeo, StText, StNull, StNoTown,
     StNoName, StNotDict}

SeqsUpTo(S, n) == UNION {[1..m -> S] : m \in 0..n}

Payload(shape, stations) == [shape |-> shape, stations |-> stations]

\* what requests.get answers: a RequestException, or a JSON payload
ApiAnswer(status, payload) == [status |-> status, payload |-> payload]

\* what gpd.read_file answers: an error, or the polygons of the file
MapAnswer(ok, polys) == [ok |-> ok, polys |-> polys]

\* {} / no "records" key / no "Station" key / "records": null / "Station": null
MalformedPayloads ==
    {Payload(s, <<>>) : s \in {"empty", "no_records", "no_station",
                                "records_null", "station_null"}}

ProcessPayloads ==
    MalformedPayloads \cup {Payload("ok", st) : st \in SeqsUpTo(Stations, MaxStations)}

-----------------------------------------------------------------------------
(* The lattice: np.mgrid[min_lon:max_lon:500j, min_lat:max_lat:500j]        *)
(* A longitude is kept multiplied by XScale and a latitude by YScale, so    *)
(* that every lattice coordinate is an integer.                            *)

min_lon == 1199
max_lon == 1221
min_lat == 218
max_lat == 254

XScale == GridRows - 1
YScale == GridCols - 1

Idx == (0 .. GridRows - 1) \X (0 .. GridCols - 1)

LinspaceNoEndpoint(lo, hi, n, i) == lo * (n - 1) + (i * (hi - lo) * (n - 1)) \div n

\* point i of n from lo to hi, both ends included, times (n - 1):
\* lo + i * (hi - lo) / (n - 1)
Linspace(lo, hi, n, i) == lo * (n - 1) + i * (hi - lo)

\* line 146
mgrid ==
    [x |-> [ij \in Idx |-> Linspace(min_lon, max_lon, GridRows, ij[1])],
     y |-> [ij \in Idx |-> Linspace(min_lat, max_lat, GridCols, ij[2])]]

\* ndarray.flatten(): row-major
flatten(g) == [k \in 1 .. GridRows * GridCols |->
                  g[<<(k - 1) \div GridCols, (k - 1) % GridCols>>]]

\* ndarray.reshape(grid_x.shape): row-major
reshape(flat) == [ij \in Idx |-> flat[ij[1] * GridCols + ij[2] + 1]]

-----------------------------------------------------------------------------
(* scipy.interpolate.griddata(points, values, xi, method='linear',         *)
(* fill_value=nan): the Delaunay triangulation of the points, and in each  *)
(* triangle the plane through its three values.                            *)

Rat(n, d) == [k |-> "fin", num |-> n, den |-> d]
CellNaN == [k |-> "nan", num |-> 0, den |-> 1]

Abs(n) == IF n < 0 THEN -n ELSE n

\* Euclid's algorithm
GcdOf[a \in Nat, b \in Nat] == IF b = 0 THEN a ELSE GcdOf[b, a % b]

Gcd(a, b) == GcdOf[a, b]

\* n / d in lowest terms, d # 0
Ratio(n, d) ==
    LET g == Gcd(Abs(n), Abs(d))
        s == IF d < 0 THEN -1 ELSE 1
    IN  Rat((s * n) \div g, (s * d) \div g)

\* twice the signed area of the triangle a b c
Orient(a, b, c) ==
    (b[1] - a[1]) * (c[2] - a[2]) - (b[2] - a[2]) * (c[1] - a[1])

\* d lies strictly inside the circle through a, b, c (not collinear)
InCircle(a, b, c, d) ==
    LET ax == a[1] - d[1]  ay == a[2] - d[2]
        bx == b[1] - d[1]  by == b[2] - d[2]
        cx == c[1] - d[1]  cy == c[2] - d[2]
        det == (ax * ax + ay * ay) * (bx * cy - cx * by)
             - (bx * bx + by * by) * (ax * cy - cx * ay)
             + (cx * cx + cy * cy) * (ax * by - bx * ay)
    IN  IF Orient(a, b, c) > 0 THEN det > 0 ELSE det < 0

\* the coordinates of row k of the frame, in tenths of a degree
PointOf(df, k) == <<df[k].lon.v, df[k].lat.v>>

\* the same, in lattice units
ScaledPointOf(df, k) == <<df[k].lon.v * XScale, df[k].lat.v * YScale>>

Triples(df) == {T \in SUBSET (1 .. Len(df)) : Cardinality(T) = 3}

Corners(T) ==
    LET a == CHOOSE i \in T : \A j \in T : i <= j
        c == CHOOSE i \in T : \A j \in T : i >= j
        b == CHOOSE i \in T : i # a /\ i # c
    IN  <<a, b, c>>

NotCollinear(df, T) ==
    LET t == Corners(T)
    IN  Orient(PointOf(df, t[1]), PointOf(df, t[2]), PointOf(df, t[3])) # 0

\* Qhull gives up (QhullError) on fewer than 3 points and on points that
\* all lie on one line
QhullFails(df) == \A T \in Triples(df) : ~NotCollinear(df, T)

\* the triangles of the Delaunay triangulation: no other point lies
\* strictly inside the circle through the three corners
Delaunay(df) ==
    {T \in Triples(df) :
        /\ NotCollinear(df, T)
        /\ LET t == Corners(T)
           IN  \A d \in (1 .. Len(df)) \ T :
                   ~InCircle(PointOf(df, t[1]), PointOf(df, t[2]),
                             PointOf(df, t[3]), PointOf(df, d))}

\* p lies in the closed triangle T
InTriangle(df, T, p) ==
    LET t  == Corners(T)
        a  == ScaledPointOf(df, t[1])
        b  == ScaledPointOf(df, t[2])
        c  == ScaledPointOf(df, t[3])
        o1 == Orient(a, b, p)
        o2 == Orient(b, c, p)
        o3 == Orient(c, a, p)
    IN  (o1 >= 0 /\ o2 >= 0 /\ o3 >= 0) \/ (o1 <= 0 /\ o2 <= 0 /\ o3 <= 0)

\* the value at p of the plane through the three values of T; a value that
\* is not finite makes the result not finite (kept as nan)
Barycentric(df, T, p) ==
    LET t  == Corners(T)
        a  == ScaledPointOf(df, t[1])
        b  == ScaledPointOf(df, t[2])
        c  == ScaledPointOf(df, t[3])
        va == df[t[1]].at
        vb == df[t[2]].at
        vc == df[t[3]].at
    IN  IF ~(IsFinite(va) /\ IsFinite(vb) /\ IsFinite(vc)) THEN CellNaN
        ELSE Ratio(Orient(p, b, c) * va.v + Orient(a, p, c) * vb.v
                     + Orient(a, b, p) * vc.v,
                   Orient(a, b, c))

\* lines 150-156: the field at the lattice points (gx, gy), nan outside the
\* convex hull of the points
griddata(df, gx, gy) ==
    [ij \in DOMAIN gx |->
        LET p    == <<gx[ij], gy[ij]>>
            vals == {Barycentric(df, T, p) :
                        T \in {T \in Delaunay(df) : InTriangle(df, T, p)}}
        IN  IF vals = {} THEN CellNaN ELSE CHOOSE v \in vals : TRUE]

-----------------------------------------------------------------------------
(* The boundary: polygons, union_all and within.  The polygons of the      *)
(* model are rectangles [x0, x1] x [y0, y1], in tenths of a degree.        *)

Rect(x0, x1, y0, y1) == [x0 |-> x0, x1 |-> x1, y0 |-> y0, y1 |-> y1]

union_first(polys) == IF polys = <<>> THEN {} ELSE {Head(polys)}

\* line 139: the union of the polygons, kept as the set of its parts
RECURSIVE union_all(_)
union_all(polys) ==
    IF polys = <<>> THEN {} ELSE {Head(polys)} \cup union_all(Tail(polys))

\* the points next to p in the quadrant (sx, sy) lie in the rectangle r
QuadrantIn(p, sx, sy, r) ==
    /\ IF sx > 0 THEN r.x0 * XScale <= p[1] /\ p[1] < r.x1 * XScale
                 ELSE r.x0 * XScale < p[1] /\ p[1] <= r.x1 * XScale
    /\ IF sy > 0 THEN r.y0 * YScale <= p[2] /\ p[2] < r.y1 * YScale
                 ELSE r.y0 * YScale < p[2] /\ p[2] <= r.y1 * YScale

\* Point.within(geom): p lies in the interior of geom, that is, all the
\* points next to p lie in some part of it
within(p, geom) ==
    \A sx \in {-1, 1}, sy \in {-1, 1} : \E r \in geom : QuadrantIn(p, sx, sy, r)

\* lines 161-168
land_mask(gx, gy, geom) ==
    LET fx == flatten(gx)
        fy == flatten(gy)
        grid_points == [k \in DOMAIN fx |-> <<fx[k], fy[k]>>]
        mask == [k \in DOMAIN grid_points |-> within(grid_points[k], geom)]
    IN  reshape(mask)

mask_assign_kept(z, m) == [ij \in DOMAIN z |-> IF m[ij] THEN CellNaN ELSE z[ij]]

\* line 171: grid_z[~mask_grid] = np.nan
mask_assign(z, m) == [ij \in DOMAIN z |-> IF ~m[ij] THEN CellNaN ELSE z[ij]]

-----------------------------------------------------------------------------
(* process_data, one loop iteration at a time *)

Unset == <<>>

HeatmapUnset ==
    /\ taiwan_map = Unset /\ taiwan_union = {}
    /\ grid_x = Unset /\ grid_y = Unset /\ grid_z = Unset
    /\ interp = Unset /\ mask_grid = Unset

UNCHANGED_heatmap ==
    UNCHANGED <<taiwan_map, taiwan_union, grid_x, grid_y, grid_z, interp,
                mask_grid, png_saved>>

\* lines 83-90 and the start of the for statement of line 92
PdGuard ==
    /\ pc = "pd_guard"
    /\ mainland_data' = <<>>
    /\ km_matsu_data' = <<>>
    /\ idx' = 1
    /\ IF GuardExc(raw_data) # "none"
       THEN pc' = "pd_raised" /\ exc' = GuardExc(raw_data)
                /\ UNCHANGED <<df_main, df_km>>
       ELSE IF GuardHolds(raw_data)
       THEN pc' = "pd_returned" /\ exc' = "none"
                /\ df_main' = <<>> /\ df_km' = <<>>
       ELSE IF raw_data.shape = "station_null"
       THEN pc' = "pd_raised" /\ exc' = "TypeError"
                /\ UNCHANGED <<df_main, df_km>>
       ELSE pc' = "pd_loop" /\ exc' = "none" /\ UNCHANGED <<df_main, df_km>>
    /\ UNCHANGED <<net_api, net_map, raw_data, json_saved>>
    /\ UNCHANGED_heatmap

\* lines 92-128: one iteration of the loop
PdItem ==
    /\ pc = "pd_loop"
    /\ idx <= Len(raw_data.stations)
    /\ LET r == TryBody(raw_data.stations[idx])
       IN  IF r.kind = "exc" /\ ~ExceptClause(r.exc)
           THEN /\ pc' = "pd_raised" /\ exc' = r.exc
                /\ UNCHANGED <<idx, mainland_data, km_matsu_data>>
           ELSE /\ pc' = "pd_loop" /\ exc' = "none"
                /\ idx' = idx + 1
                /\ mainland_data' = IF r.kind = "main"
                                    THEN Append(mainland_data, r.dp)
                                    ELSE mainland_data
                /\ km_matsu_data' = IF r.kind = "km"
                                    THEN Append(km_matsu_data, r.dp)
                                    ELSE km_matsu_data
    /\ UNCHANGED <<net_api, net_map, raw_data, df_main, df_km, json_saved>>
    /\ UNCHANGED_heatmap

\* line 130, and the assignment of line 256
PdReturn ==
    /\ pc = "pd_loop"
    /\ idx > Len(raw_data.stations)
    /\ pc' = "pd_returned"
    /\ df_main' = mainland_data
    /\ df_km' = km_matsu_data
    /\ UNCHANGED <<net_api, net_map, raw_data, idx, mainland_data,
                   km_matsu_data, json_saved, exc>>
    /\ UNCHANGED_heatmap

InitProcess ==
    /\ pc = "pd_guard"
    /\ net_api = ApiAnswer("unused", Payload("none", <<>>))
    /\ net_map = MapAnswer(FALSE, <<>>)
    /\ raw_data \in ProcessPayloads
    /\ idx = 1
    /\ mainland_data = <<>> /\ km_matsu_data = <<>>
    /\ df_main = <<>> /\ df_km = <<>>
    /\ HeatmapUnset
    /\ png_saved = FALSE /\ json_saved = FALSE
    /\ exc = "none"

NextProcess == PdGuard \/ PdItem \/ PdReturn

SpecProcess == InitProcess /\ [][NextProcess]_vars

-----------------------------------------------------------------------------
(* generate_heatmap *)

West == Rect(1190, 1210, 218, 254)
East == Rect(1210, 1225, 210, 260)
Island == Rect(1205, 1215, 225, 240)
Islet == Rect(1180, 1185, 243, 245)

Polygons == {West, East, Island, Islet}

Injective(f) == \A i, j \in DOMAIN f : f[i] = f[j] => i = j

\* the boundary files of the model: up to MaxPolys different polygons
Boundaries == {b \in SeqsUpTo(Polygons, MaxPolys) : Injective(b)}

GoodList == <<StA, StB, StC, StD, StE>>

\* the rows process_data makes of a list of stations
FrameOf(stations) == process_data(Payload("ok", stations)).main

\* the frames of the model: the rows of 1 to MaxSamples good stations
Frames ==
    {FrameOf(SelectSeq(GoodList, LAMBDA st : st \in S)) :
        S \in {S \in SUBSET GoodStations :
                  Cardinality(S) >= 1 /\ Cardinality(S) <= MaxSamples}}

ReadFileExcOnEmpty(answer) ==
    IF ~answer.ok THEN "DataSourceError"
    ELSE IF answer.polys = <<>> THEN "ValueError"
    ELSE "none"

\* line 137: the exception gpd.read_file raises, "none" when it returns
ReadFileExc(answer) == IF ~answer.ok THEN "DataSourceError" ELSE "none"

QhullExcOnlyEmpty(df) == IF Len(df) = 0 THEN "QhullError" ELSE "none"

\* line 150: the exception griddata raises, "none" when it returns
QhullExc(df) == IF QhullFails(df) THEN "QhullError" ELSE "none"

UNCHANGED_inputs ==
    UNCHANGED <<net_api, net_map, raw_data, idx, mainland_data, km_matsu_data,
                df_main, df_km, json_saved>>

\* lines 137-139
HmRead ==
    /\ pc = "hm_read"
    /\ IF ReadFileExc(net_map) # "none"
       THEN /\ pc' = "hm_raised" /\ exc' = ReadFileExc(net_map)
            /\ UNCHANGED <<taiwan_map, taiwan_union>>
       ELSE /\ pc' = "hm_grid" /\ exc' = "none"
            /\ taiwan_map' = net_map.polys
            /\ taiwan_union' = union_all(net_map.polys)
    /\ UNCHANGED <<grid_x, grid_y, grid_z, interp, mask_grid, png_saved>>
    /\ UNCHANGED_inputs

\* lines 143-146
HmGrid ==
    /\ pc = "hm_grid"
    /\ pc' = "hm_interp"
    /\ grid_x' = mgrid.x
    /\ grid_y' = mgrid.y
    /\ UNCHANGED <<taiwan_map, taiwan_union, grid_z, interp, mask_grid,
                   png_saved, exc>>
    /\ UNCHANGED_inputs

\* lines 150-156
HmInterp ==
    /\ pc = "hm_interp"
    /\ IF QhullExc(df_main) # "none"
       THEN /\ pc' = "hm_raised" /\ exc' = QhullExc(df_main)
            /\ UNCHANGED <<grid_z, interp>>
       ELSE /\ pc' = "hm_mask" /\ exc' = "none"
            /\ grid_z' = griddata(df_main, grid_x, grid_y)
            /\ interp' = grid_z'
    /\ UNCHANGED <<taiwan_map, taiwan_union, grid_x, grid_y, mask_grid,
                   png_saved>>
    /\ UNCHANGED_inputs

\* lines 161-168
HmMask ==
    /\ pc = "hm_mask"
    /\ pc' = "hm_apply"
    /\ mask_grid' = land_mask(grid_x, grid_y, taiwan_union)
    /\ UNCHANGED <<taiwan_map, taiwan_union, grid_x, grid_y, grid_z, interp,
                   png_saved, exc>>
    /\ UNCHANGED_inputs

\* line 171
HmApply ==
    /\ pc = "hm_apply"
    /\ pc' = "hm_plot"
    /\ grid_z' = mask_assign(grid_z, mask_grid)
    /\ UNCHANGED <<taiwan_map, taiwan_union, grid_x, grid_y, interp, mask_grid,
                   png_saved, exc>>
    /\ UNCHANGED_inputs

\* lines 175-228: the chart is drawn and saved
HmPlot ==
    /\ pc = "hm_plot"
    /\ pc' = "hm_returned"
    /\ png_saved' = TRUE
    /\ UNCHANGED <<taiwan_map, taiwan_union, grid_x, grid_y, grid_z, interp,
                   mask_grid, exc>>
    /\ UNCHANGED_inputs

InitHeatmap ==
    /\ pc = "hm_read"
    /\ net_api = ApiAnswer("unused", Payload("none", <<>>))
    /\ net_map \in {MapAnswer(FALSE, <<>>)} \cup {MapAnswer(TRUE, b) : b \in Boundaries}
    /\ raw_data = Payload("none", <<>>)
    /\ idx = 1
    /\ mainland_data = <<>> /\ km_matsu_data = <<>>
    /\ df_main \in Frames
    /\ df_km = <<>>
    /\ HeatmapUnset
    /\ png_saved = FALSE /\ json_saved = FALSE
    /\ exc = "none"

NextHeatmap == HmRead \/ HmGrid \/ HmInterp \/ HmMask \/ HmApply \/ HmPlot

SpecHeatmap == InitHeatmap /\ [][NextHeatmap]_vars

-----------------------------------------------------------------------------
(* The main program (lines 251-273) *)

\* raw_data is truthy (line 254): None and {} are not
Truthy(raw) == raw.shape \notin {"none", "empty"}

\* fetch_data, lines 67-78
fetch_data(answer) ==
    IF answer.status = "RequestException" THEN Payload("none", <<>>)
    ELSE answer.payload

HandlesValueErrorOnly(e) == e = "ValueError"

\* line 269: except Exception
HandlesException(e) ==
    e \in {"ValueError", "KeyError", "IndexError", "TypeError", "QhullError",
           "DataSourceError"}

MainStationLists ==
    {<<>>, <<StKinmen>>, <<StPenghu, StCold>>, <<StA>>, <<StA, StB>>,
     <<StA, StB, StE>>, <<StA, StB, StC>>, <<StA, StB, StC, StD>>,
     <<StA, StNoTemp, StB, StMatsu, StC>>}

ApiAnswers ==
    {ApiAnswer("RequestException", Payload("none", <<>>))}
    \cup {ApiAnswer("ok", q) : q \in MalformedPayloads}
    \cup {ApiAnswer("ok", Payload("ok", st)) : st \in MainStationLists}

MapAnswers ==
    {MapAnswer(FALSE, <<>>), MapAnswer(TRUE, <<>>), MapAnswer(TRUE, <<West>>),
     MapAnswer(TRUE, <<East, West>>)}

\* lines 253-254, and 267 when raw_data is falsy
MainFetch ==
    /\ pc = "fetch"
    /\ raw_data' = fetch_data(net_api)
    /\ pc' = IF Truthy(raw_data') THEN "pd_guard" ELSE "done"
    /\ UNCHANGED <<net_api, net_map, idx, mainland_data, km_matsu_data,
                   df_main, df_km, json_saved, exc>>
    /\ UNCHANGED_heatmap

\* line 258, and 265 when df_main is empty
MainBranch ==
    /\ pc = "pd_returned"
    /\ pc' = IF df_main # <<>> THEN "hm_read" ELSE "done"
    /\ UNCHANGED <<net_api, net_map, raw_data, idx, mainland_data,
                   km_matsu_data, df_main, df_km, json_saved, exc>>
    /\ UNCHANGED_heatmap

\* lines 262-263: save_json (lines 230-249)
MainSave ==
    /\ pc = "hm_returned"
    /\ pc' = "done"
    /\ json_saved' = TRUE
    /\ UNCHANGED <<net_api, net_map, raw_data, idx, mainland_data,
                   km_matsu_data, df_main, df_km, exc>>
    /\ UNCHANGED_heatmap

\* lines 269-273
MainExcept ==
    /\ pc \in {"pd_raised", "hm_raised"}
    /\ pc' = IF HandlesException(exc) THEN "done" ELSE "crashed"
    /\ UNCHANGED <<net_api, net_map, raw_data, idx, mainland_data,
                   km_matsu_data, df_main, df_km, json_saved, exc>>
    /\ UNCHANGED_heatmap

Init ==
    /\ pc = "fetch"
    /\ net_api \in ApiAnswers
    /\ net_map \in MapAnswers
    /\ raw_data = Payload("none", <<>>)
    /\ idx = 1
    /\ mainland_data = <<>> /\ km_matsu_data = <<>>
    /\ df_main = <<>> /\ df_km = <<>>
    /\ HeatmapUnset
    /\ png_saved = FALSE /\ json_saved = FALSE
    /\ exc = "none"

Next ==
    \/ MainFetch \/ PdGuard \/ PdItem \/ PdReturn \/ MainBranch
    \/ HmRead \/ HmGrid \/ HmInterp \/ HmMask \/ HmApply \/ HmPlot
    \/ MainSave \/ MainExcept

Spec == Init /\ [][Next]_vars

\* a sequential program keeps running until it ends
FairSpec == Spec /\ WF_vars(Next)

-----------------------------------------------------------------------------
(* Properties *)

AfterInterp == pc \in {"hm_mask", "hm_apply", "hm_plot", "hm_returned"}
AfterMask == pc \in {"hm_apply", "hm_plot", "hm_returned"}
AfterApply == pc \in {"hm_plot", "hm_returned"}

LatticePoint(ij) == <<grid_x[ij], grid_y[ij]>>

\* C1: for at least 3 samples, the field griddata returns (before the mask
\* is applied) is defined at every lattice cell: no cell is left missing.
C1_InterpolationTotal ==
    (AfterInterp /\ Len(df_main) >= 3) =>
        \A ij \in Idx : interp[ij] # CellNaN

\* C2: after the mask is applied, the final field equals the interpolated
\* field where the mask is true and is missing (never zero) where it is false.
C2_CompositorCorrect ==
    AfterApply =>
        /\ DOMAIN grid_z = DOMAIN interp
        /\ \A ij \in DOMAIN interp :
              grid_z[ij] = IF mask_grid[ij] THEN interp[ij] ELSE CellNaN
        /\ \A ij \in DOMAIN interp : ~mask_grid[ij] => grid_z[ij] # Rat(0, 1)

\* a land cell keeps its value and a sea cell with a value loses it
C2_Witness ==
    /\ pc = "hm_returned"
    /\ \E ij \in Idx : mask_grid[ij] /\ interp[ij].k = "fin" /\ grid_z[ij] = interp[ij]
    /\ \E ij \in Idx : ~mask_grid[ij] /\ interp[ij].k = "fin" /\ grid_z[ij] = CellNaN

RowFinite(row) ==
    IsFinite(row.lat) /\ IsFinite(row.lon) /\ IsFinite(row.temp) /\ IsFinite(row.at)

Rows(df) == {df[k] : k \in 1 .. Len(df)}

\* every field of the item is there and float() accepts the five numbers
Readable(s) ==
    /\ s.dict /\ s.coords = "list"
    /\ \A tok \in {s.lat, s.lon, s.temp, s.humid, s.wind} :
          tok \in NumTokens \cup {"nan", "inf", "-inf"}
    /\ s.city # Absent /\ s.name # Absent /\ s.town # Absent

\* C3: every row of either output set of process_data has finite coordinates,
\* temperature and apparent temperature, and a record whose temperature,
\* humidity or wind speed parses to NaN or an infinity is in neither set.
C3_SamplesFinite ==
    pc = "pd_returned" =>
        /\ \A row \in Rows(df_main) \cup Rows(df_km) : RowFinite(row)
        /\ \A i \in 1 .. Len(raw_data.stations) :
              LET s == raw_data.stations[i]
              IN  (Readable(s) /\ \E tok \in {s.temp, s.humid, s.wind} :
                                      ~IsFinite(ParseFloat(tok)))
                  => \A row \in Rows(df_main) \cup Rows(df_km) : row.name # s.name

\* C4: with fewer than 3 samples the interpolation step fails, the failure
\* reaches the caller, and no field, chart or dataset is produced.
C4_InsufficientSamples ==
    Len(df_main) < 3 =>
        /\ ~AfterInterp
        /\ grid_z = Unset /\ interp = Unset
        /\ ~png_saved /\ ~json_saved
        /\ (grid_x # Unset /\ pc # "hm_interp") =>
              (exc = "QhullError" /\ pc \in {"hm_raised", "done"})

\* one or two samples reached the interpolation step and the run has ended
C4_Witness ==
    /\ pc = "done" /\ Len(df_main) \in {1, 2}
    /\ grid_x # Unset /\ exc = "QhullError"
    /\ ~png_saved /\ ~json_saved

PolyOrders(n) == {f \in [1 .. n -> 1 .. n] : Injective(f)}

Permuted(polys, f) == [i \in 1 .. Len(polys) |-> polys[f[i]]]

\* p lies strictly inside the polygon r
StrictlyIn(p, r) ==
    /\ r.x0 * XScale < p[1] /\ p[1] < r.x1 * XScale
    /\ r.y0 * YScale < p[2] /\ p[2] < r.y1 * YScale

\* p lies inside the polygon r or on its border
InOrOn(p, r) ==
    /\ r.x0 * XScale <= p[1] /\ p[1] <= r.x1 * XScale
    /\ r.y0 * YScale <= p[2] /\ p[2] <= r.y1 * YScale

OrderIndependent ==
    \A f \in PolyOrders(Len(taiwan_map)) :
        land_mask(grid_x, grid_y, union_all(Permuted(taiwan_map, f))) = mask_grid

\* C6 as stated: the mask is the OR over the polygons of per-polygon
\* containment (a cell is true iff it lies inside at least one polygon), and
\* every permutation of the polygons gives the same mask.
C6_MaskIsPerPolygonOr ==
    AfterMask =>
        /\ \A ij \in Idx :
              mask_grid[ij] = (\E k \in 1 .. Len(taiwan_map) :
                                  StrictlyIn(LatticePoint(ij), taiwan_map[k]))
        /\ OrderIndependent

\* C6 as amended: the mask is containment in the union of the polygons: a
\* cell inside a polygon is true, a true cell lies in or on a polygon (it may
\* lie on the border two adjacent polygons share), and every permutation of
\* the polygons gives the same mask.
C6_MaskOrderIndependent ==
    AfterMask =>
        /\ \A ij \in Idx :
              /\ (\E k \in 1 .. Len(taiwan_map) :
                     StrictlyIn(LatticePoint(ij), taiwan_map[k])) => mask_grid[ij]
              /\ mask_grid[ij] => \E k \in 1 .. Len(taiwan_map) :
                                      InOrOn(LatticePoint(ij), taiwan_map[k])
        /\ OrderIndependent

\* two polygons, and a land cell that no single polygon contains
C6_Witness ==
    /\ AfterMask /\ Len(taiwan_map) = 2
    /\ \E ij \in Idx :
          /\ mask_grid[ij]
          /\ \A k \in 1 .. Len(taiwan_map) : ~StrictlyIn(LatticePoint(ij), taiwan_map[k])

\* C7: the lattice has GridRows x GridCols points at uniform spacing from the
\* region's min to its max on both axes, and the interpolated field, the mask
\* and the final field all have the lattice's shape.
C7_LatticeShape ==
    /\ grid_x # Unset =>
          /\ DOMAIN grid_x = Idx /\ DOMAIN grid_y = Idx
          /\ Cardinality({LatticePoint(ij) : ij \in Idx}) = GridRows * GridCols
          /\ \A ij \in Idx :
                /\ ij[1] = 0 => grid_x[ij] = min_lon * XScale
                /\ ij[1] = GridRows - 1 => grid_x[ij] = max_lon * XScale
                /\ ij[2] = 0 => grid_y[ij] = min_lat * YScale
                /\ ij[2] = GridCols - 1 => grid_y[ij] = max_lat * YScale
                /\ ij[1] > 0 => grid_x[ij] - grid_x[<<ij[1] - 1, ij[2]>>]
                                    = max_lon - min_lon
                /\ ij[2] > 0 => grid_y[ij] - grid_y[<<ij[1], ij[2] - 1>>]
                                    = max_lat - min_lat
    /\ interp # Unset => DOMAIN interp = DOMAIN grid_x /\ DOMAIN grid_z = DOMAIN grid_x
    /\ mask_grid # Unset => DOMAIN mask_grid = DOMAIN grid_x

\* the whole of generate_heatmap has run
C7_Witness ==
    /\ pc = "hm_returned"
    /\ grid_x # Unset /\ interp # Unset /\ mask_grid # Unset
    /\ GridRows >= 2 /\ GridCols >= 2 /\ min_lon < max_lon /\ min_lat < max_lat

\* temperature outside [-15, 55] or humidity outside [0, 100]
\* (a NaN is neither inside nor outside an interval)
Outside(s) ==
    LET t == ParseFloat(s.temp)
        h == ParseFloat(s.humid)
    IN  Lt(t, Fin(-150)) \/ Lt(Fin(550), t) \/ Lt(h, Fin(0)) \/ Lt(Fin(1000), h)

Accepted(s) == Readable(s) /\ ~Outside(s)

InKinmenMatsu(s) == s.city \in {"Kinmen", "Lienchiang"}

\* 119.0 <= lon <= 122.5 and 21.5 <= lat <= 25.5
BoxHolds(lon, lat) ==
    /\ IsFinite(lon) /\ 1190 <= lon.v /\ lon.v <= 1225
    /\ IsFinite(lat) /\ 215 <= lat.v /\ lat.v <= 255

InBox(s) == BoxHolds(ParseFloat(s.lon), ParseFloat(s.lat))

NamesOf(df) == [k \in 1 .. Len(df) |-> df[k].name]

NamesIn(stations, Test(_)) ==
    LET kept == SelectSeq(stations, Test)
    IN  [k \in 1 .. Len(kept) |-> kept[k].name]

ToKinmenMatsu(s) == Accepted(s) /\ InKinmenMatsu(s)
ToMainland(s) == Accepted(s) /\ ~InKinmenMatsu(s) /\ InBox(s)

\* C8: process_data puts a record in at most one set: a record out of range
\* is in neither; an accepted Kinmen or Lienchiang record is in the
\* Kinmen/Matsu set only, whatever its coordinates; any other accepted record
\* is in the mainland set only, and only if it lies in the box.
C8_Routing ==
    (pc = "pd_returned" /\ raw_data.shape = "ok") =>
        /\ NamesOf(df_km) = NamesIn(raw_data.stations, ToKinmenMatsu)
        /\ NamesOf(df_main) = NamesIn(raw_data.stations, ToMainland)
        /\ \A i \in 1 .. Len(raw_data.stations) :
              LET s == raw_data.stations[i]
              IN  (Readable(s) /\ Outside(s)) =>
                      \A row \in Rows(df_main) \cup Rows(df_km) : row.name # s.name
        /\ \A row \in Rows(df_main) : BoxHolds(row.lon, row.lat)
        /\ \A row \in Rows(df_main) : row.city \notin {"Kinmen", "Lienchiang"}
        /\ \A row \in Rows(df_km) : row.city \in {"Kinmen", "Lienchiang"}
        /\ Rows(df_main) \cap Rows(df_km) = {}

\* a Kinmen record outside the box is kept, another outside the box is dropped
C8_Witness ==
    /\ pc = "pd_returned" /\ Len(raw_data.stations) = 2
    /\ Len(df_km) = 1 /\ ~BoxHolds(df_km[1].lon, df_km[1].lat)
    /\ df_main = <<>>
    /\ \E i \in 1 .. 2 : LET s == raw_data.stations[i]
                         IN  Accepted(s) /\ ~InKinmenMatsu(s) /\ ~InBox(s)

\* a missing key, an empty coordinate list or a field that is not a number
IsBad(s) ==
    \/ ~s.dict
    \/ s.coords \in {Absent, "empty"}
    \/ \E tok \in {s.lat, s.lon, s.temp, s.humid, s.wind} :
          tok \notin NumTokens \cup {"nan", "inf", "-inf"}
    \/ Absent \in {s.city, s.name, s.town}

RemoveAt(s, i) == SubSeq(s, 1, i - 1) \o SubSeq(s, i + 1, Len(s))

\* C9: a bad record is skipped and changes nothing else: the output equals
\* the output for the input without it; a payload that is empty or lacks
\* records/Station gives two empty sets; no exception escapes in either case.
C9_BadRecordsIsolated ==
    /\ raw_data.shape \in {"ok", "empty", "no_records", "no_station"} =>
          pc # "pd_raised"
    /\ (pc = "pd_returned" /\ raw_data.shape \in {"empty", "no_records", "no_station"}) =>
          df_main = <<>> /\ df_km = <<>>
    /\ (pc = "pd_returned" /\ raw_data.shape = "ok") =>
          \A i \in 1 .. Len(raw_data.stations) :
              IsBad(raw_data.stations[i]) =>
                  LET r == process_data(Payload("ok", RemoveAt(raw_data.stations, i)))
                  IN  r.exc = "none" /\ r.main = df_main /\ r.km = df_km

\* a bad record came before a good one, which was kept
C9_Witness ==
    /\ pc = "pd_returned" /\ Len(raw_data.stations) = 2
    /\ IsBad(raw_data.stations[1])
    /\ Len(df_main) = 1 /\ df_main[1].name = raw_data.stations[2].name

\* C10: data_detailed.json is written only after generate_heatmap has
\* returned; when the fetch fails, the mainland set is empty or
\* generate_heatmap raises it is never written; and the run always ends
\* without an uncaught exception.
C10_RunOrdering ==
    /\ [](json_saved => (png_saved /\ grid_z # Unset /\ pc = "done" /\ exc = "none"))
    /\ []((net_api.status = "RequestException" \/ df_main = <<>> \/ exc # "none")
            => ~json_saved)
    /\ [](pc # "crashed")
    /\ <>[](pc = "done")

\* generate_heatmap raised, main caught it and ended without writing
C10_Witness ==
    /\ pc = "done" /\ exc \in {"QhullError", "DataSourceError"}
    /\ df_main # <<>> /\ ~json_saved

=============================================================================
